---- MODULE Spec2Model ----
(***************************************************************************)
(* Matrix-multiply cache benchmark (src/matrix_product.cpp).               *)
(*                                                                         *)
(* The program is modelled statement by statement: main's argument loop,   *)
(* the five vector allocations, the generator loops, sleep / flushCache /  *)
(* sleep, the two clock readings, the kernels (one step per inner-loop     *)
(* iteration and one per store), the checksum loop and the two prints.     *)
(*                                                                         *)
(* Three specifications share the same variables and the same kernel       *)
(* steps:                                                                  *)
(*   Spec        a run of main, dimension scaled down to 1..MaxN;          *)
(*   SpecKernels a driver that applies buildTranspose, multiplyNaive,      *)
(*               multiplyWithTranspose and buildTranspose again to one     *)
(*               pair of generated inputs;                                 *)
(*   SpecIndex   the loop nests at the program's own dimension n = 2000,   *)
(*               positions only (no cell contents), started near both      *)
(*               ends of every loop.                                       *)
(*                                                                         *)
(* double is modelled as a small binary floating-point format: a value is  *)
(* a non-negative integer with at most MantBits significant bits, and      *)
(* every + and * rounds to nearest, ties to even, so that addition is not  *)
(* associative and the order of accumulation is observable.                *)
(***************************************************************************)
EXTENDS Integers, Sequences, FiniteSets, TLC

\* ---------------------------------------------------------------- bounds
MaxN == 3          \* largest scaled-down dimension n of Spec and SpecKernels
MaxSeed == 15      \* generator seeds 0..MaxSeed
MaxVal == 7        \* generated entries lie in 0..MaxVal
MantBits == 3      \* significant bits of the modelled double
MaxTick == 1       \* steady_clock readings lie in 0..MaxTick
ProbeSpan == 2     \* SpecIndex starts within ProbeSpan of either end of a loop
MaxProbe == 3      \* SpecIndex follows each loop nest for MaxProbe steps

\* ------------------------------------------------------ program constants
NCode == 2000
IntMax == 2147483647
Npos == -1

\* ------------------------------------------------------------- double
RECURSIVE RoundExp(_, _)
\* The exponent e >= 0 at which x needs no more than MantBits bits: x < 2^(MantBits+e).
RoundExp(x, e) == IF x < 2 ^ (MantBits + e) THEN e ELSE RoundExp(x, e + 1)

\* Round x >= 0 to MantBits significant bits, to nearest, ties to even.
RoundDouble(x) ==
    LET e == RoundExp(x, 0)
        ulp == 2 ^ e
        q == x \div ulp
        r == x % ulp
    IN  IF e = 0 THEN x
        ELSE IF 2 * r > ulp \/ (2 * r = ulp /\ q % 2 = 1)
             THEN (q + 1) * ulp
             ELSE q * ulp

fadd(a, b) == RoundDouble(a + b)

fmul(a, b) == RoundDouble(a * b)

\* The bit pattern of a double, read as an unsigned integer: the exponent field
\* above the fraction field (exponent field 0 for a subnormal, fraction without
\* the implicit leading bit otherwise).
DoubleBits(x) ==
    LET e == RoundExp(x, 0)
        q == x \div (2 ^ e)
        hidden == 2 ^ (MantBits - 1)
    IN  (e + 1) * hidden + (q - hidden)

HexDigit(d) == SubSeq("0123456789abcdef", d + 1, d + 1)

RECURSIVE HexString(_)
\* operator<< under std::hex: no leading zeros, "0" for zero.
HexString(u) == IF u < 16 THEN HexDigit(u) ELSE HexString(u \div 16) \o HexDigit(u % 16)

RECURSIVE DecString(_)
DecString(u) == IF u < 10 THEN HexDigit(u) ELSE DecString(u \div 10) \o HexDigit(u % 10)

\* ---------------------------------------------------------- generator
\* std::mt19937 is abstracted to a congruential generator: what the program
\* relies on is a deterministic stream fixed by the seed.
GenNext(g) == (g * 13 + 7) % 64

\* uniform_real_distribution over [0,1): one representable value per draw.
Dist(g) == RoundDouble((g \div 4) % (MaxVal + 1))

RECURSIVE GenAdvance(_, _)
GenAdvance(g, t) == IF t = 0 THEN g ELSE GenAdvance(GenNext(g), t - 1)

\* ------------------------------------------------------------- strings
\* std::string::find: the first position (from 0) where t occurs in s, or npos.
StrFind(s, t) ==
    LET hits == {p \in 1..(Len(s) - Len(t) + 1) : SubSeq(s, p, p + Len(t) - 1) = t}
    IN  IF hits = {} THEN Npos
        ELSE (CHOOSE p \in hits : \A q \in hits : p <= q) - 1

\* The command lines examined: argv[0] is the program name.
ArgvSet ==
    { <<"./benchmark">>,
      <<"./benchmark", "transpose">>,
      <<"./benchmark", "naive">>,
      <<"./benchmark", "-v", "transposed">>,
      <<"./benchmark", "trans">>,
      <<"./transpose_bench">>,
      <<"./transpose_bench", "naive">>,
      << >> }

\* ------------------------------------------------------------- indices
\* int arithmetic: signed overflow is undefined, so it is detected, never wrapped.
IntFitsMul(a, b) == b = 0 \/ a <= IntMax \div b

IntFitsAdd(a, b) == a <= IntMax - b

IndexFits(row, col, dim) == IntFitsMul(row, dim) /\ IntFitsAdd(row * dim, col)

\* Variant: the index counted from one.
indexOneBased(row, col, dim) == row * dim + col + 1

index(row, col, dim) == row * dim + col

\* An element access is <<"r" or "w", vector, index, whether the int computation
\* of the index fits>>.
OpOf(x) == x[1]

BufOf(x) == x[2]

IdxOf(x) == x[3]

FitsOf(x) == x[4]

\* A frame is <<function, first operand, second operand, destination, what a loop
\* of main does to its vector, where to return>>.
FnOf(c) == c[1]

SrcA(c) == c[2]

SrcB(c) == c[3]

Dst(c) == c[4]

LoopOp(c) == c[5]

RetOf(c) == c[6]

\* The element access v[row * dim + col].
Access(op, buf, row, col, dim) ==
    << op, buf, IF IndexFits(row, col, dim) THEN index(row, col, dim) ELSE 0,
       IndexFits(row, col, dim) >>

\* An element access v[idx] inside a loop `idx < dim * dim` of main.
LoopAccess(op, buf, idx, dim) ==
    << op, buf, idx, IntFitsMul(dim, dim) >>

\* Variant: the source read at index(i, j), a copy instead of a transposition.
buildTransposeBodyCopy(c, ii, jj, dim) ==
    << << "r", SrcA(c), ii * dim + jj, TRUE >>, << "w", Dst(c), ii * dim + jj, TRUE >> >>

\* mulT[index(i, j)] = mul[index(j, i)]: the read, then the write.
buildTransposeBody(c, ii, jj, dim) ==
    << Access("r", SrcA(c), jj, ii, dim), Access("w", Dst(c), ii, jj, dim) >>

\* Variant: the k loop run downwards, from n - 1 to 0.
multiplyNaiveBodyDownward(c, ii, jj, kk, dim) ==
    << << "r", SrcA(c), ii * dim + (dim - 1 - kk), TRUE >>,
       << "r", SrcB(c), (dim - 1 - kk) * dim + jj, TRUE >> >>

\* sum += mul1[index(i, k)] * mul2[index(k, j)]: the two reads.
multiplyNaiveBody(c, ii, jj, kk, dim) ==
    << Access("r", SrcA(c), ii, kk, dim), Access("r", SrcB(c), kk, jj, dim) >>

\* Variant: the transposed operand still read at index(k, j).
multiplyWithTransposeBodyUnswapped(c, ii, jj, kk, dim) ==
    << << "r", SrcA(c), ii * dim + kk, TRUE >>, << "r", SrcB(c), kk * dim + jj, TRUE >> >>

\* sum += mul1[index(i, k)] * mul2T[index(j, k)]: the two reads.
multiplyWithTransposeBody(c, ii, jj, kk, dim) ==
    << Access("r", SrcA(c), ii, kk, dim), Access("r", SrcB(c), jj, kk, dim) >>

\* res[index(i, j)] = sum: the write.
storeResult(c, ii, jj, dim) == << Access("w", Dst(c), ii, jj, dim) >>

\* sum += x * y
accumulate(s, x, y) == fadd(s, fmul(x, y))

\* Variant: the middle loop ends one column early (j < n - 1).
NextCellShort(ii, jj, dim) == IF jj + 1 < dim - 1 THEN <<ii, jj + 1>> ELSE <<ii + 1, 0>>

\* j++ of the middle loop, and i++ with j = 0 again when the middle loop ends.
NextCell(ii, jj, dim) == IF jj + 1 < dim THEN <<ii, jj + 1>> ELSE <<ii + 1, 0>>

\* The accesses of one step of a loop nest at position (ii, jj, kk).
StepAccesses(c, ii, jj, kk, dim) ==
    CASE FnOf(c) = "buildTranspose" -> buildTransposeBody(c, ii, jj, dim)
      [] FnOf(c) = "multiplyNaive" ->
            IF kk < dim THEN multiplyNaiveBody(c, ii, jj, kk, dim)
            ELSE storeResult(c, ii, jj, dim)
      [] FnOf(c) = "multiplyWithTranspose" ->
            IF kk < dim THEN multiplyWithTransposeBody(c, ii, jj, kk, dim)
            ELSE storeResult(c, ii, jj, dim)
      [] OTHER -> << LoopAccess(LoopOp(c), Dst(c), ii, dim) >>

\* The position after that step: <<i, j, k>>.
StepAdvance(c, ii, jj, kk, dim) ==
    CASE FnOf(c) = "buildTranspose" ->
            << NextCell(ii, jj, dim)[1], NextCell(ii, jj, dim)[2], 0 >>
      [] FnOf(c) \in {"multiplyNaive", "multiplyWithTranspose"} ->
            IF kk < dim THEN << ii, jj, kk + 1 >>
            ELSE << NextCell(ii, jj, dim)[1], NextCell(ii, jj, dim)[2], 0 >>
      [] OTHER -> << ii + 1, 0, 0 >>

\* ---------------------------------------------------------------- state
Kernels == {"multiplyNaive", "multiplyWithTranspose"}

\* main's five vectors, and mulTT: the destination of the second transposition
\* of SpecKernels (never constructed in a run of main).
Bufs == {"mul1", "mul2", "resA", "resB", "mul2T", "mulTT"}

\* main's vectors, in declaration order.
AllocOrder == << "mul1", "mul2", "resA", "resB", "mul2T" >>

ZeroVec(len) == [x \in 0..(len - 1) |-> 0]

NoCall == << "none", "none", "none", "none", "none", "none" >>

MkCall(fn, a, b, r, ret) ==
    << fn, a, b, r, "none", ret >>

VARIABLES
    argv,           \* the command line; argc = Len(argv)
    ai,             \* i of the argument loop
    transposeMode,
    n,              \* the dimension
    size,           \* size[b]: v.size() of vector b, -1 before its construction
    mem,            \* mem[b][x]: element x of vector b
    gen,            \* state of the random engine
    mi,             \* i of main's loops over n * n
    pc,             \* where main (or the driver) is
    call,           \* the function being executed and its arguments
    i, j, k, sum,   \* locals of the function being executed
    acc,            \* the element accesses of the last step
    wcount,         \* wcount[b][x]: element stores to v[x] so far
    snap,           \* the input matrices as generated
    log,            \* the events of the run so far
    out,            \* the lines written to standard output
    startT, endT,   \* the two readings of steady_clock
    checksum,
    failed,         \* the allocation that threw, "none" if none did
    probe           \* steps left to a SpecIndex run

vars == << argv, ai, transposeMode, n, size, mem, gen, mi, pc, call, i, j, k, sum,
           acc, wcount, snap, log, out, startT, endT, checksum, failed, probe >>

argVars == << argv, ai, transposeMode >>

frameVars == << call, i, j, k, sum >>

ioVars == << out, startT, endT, checksum, failed >>

\* An access is within its vector.
InBounds(x) == FitsOf(x) /\ IdxOf(x) >= 0 /\ IdxOf(x) < size[BufOf(x)]

AllInBounds(as) == \A x \in DOMAIN as : InBounds(as[x])

\* ---------------------------------------------------- the loop nests
\* Entering a function: its locals are fresh.
Enter(c) ==
    /\ call' = c
    /\ i' = 0 /\ j' = 0 /\ k' = 0 /\ sum' = 0
    /\ pc' = "call"
    /\ log' = Append(log, FnOf(c) \o ":call")

\* An access outside a vector or an int overflow is undefined behaviour.
Undefined(as) ==
    /\ pc' = "ub"
    /\ acc' = as
    /\ UNCHANGED << argVars, n, size, mem, gen, mi, frameVars, wcount, snap, log,
                    ioVars, probe >>

Advance(as) ==
    /\ i' = StepAdvance(call, i, j, k, n)[1]
    /\ j' = StepAdvance(call, i, j, k, n)[2]
    /\ k' = StepAdvance(call, i, j, k, n)[3]
    /\ acc' = as

Store(b, x, v) ==
    /\ mem' = [mem EXCEPT ![b][x] = v]
    /\ wcount' = [wcount EXCEPT ![b][x] = @ + 1]

\* One iteration of buildTranspose's inner loop.
BuildTransposeStep ==
    /\ pc = "call" /\ FnOf(call) = "buildTranspose" /\ i < n
    /\ LET as == StepAccesses(call, i, j, k, n)
       IN  IF ~AllInBounds(as) THEN Undefined(as)
           ELSE /\ Store(BufOf(as[2]), IdxOf(as[2]), mem[BufOf(as[1])][IdxOf(as[1])])
                /\ Advance(as)
                /\ UNCHANGED << argVars, n, size, gen, mi, pc, call, sum, snap, log,
                                ioVars, probe >>

\* Variant: the k loop accumulates in the result cell, res[index(i, j)] += ...
KernelInnerInPlace(fn) ==
    /\ pc = "call" /\ FnOf(call) = fn /\ i < n /\ k < n
    /\ LET as == StepAccesses(call, i, j, k, n)
           cell == i * n + j
       IN  /\ Store(Dst(call), cell,
                    fadd(mem[Dst(call)][cell],
                         fmul(mem[BufOf(as[1])][IdxOf(as[1])],
                              mem[BufOf(as[2])][IdxOf(as[2])])))
           /\ Advance(as \o << << "r", Dst(call), cell, TRUE >>,
                               << "w", Dst(call), cell, TRUE >> >>)
           /\ UNCHANGED << argVars, n, size, gen, mi, pc, call, sum, snap, log,
                           ioVars, probe >>

\* One iteration of a kernel's k loop: sum += ... in the local scalar.
KernelInner(fn) ==
    /\ pc = "call" /\ FnOf(call) = fn /\ i < n /\ k < n
    /\ LET as == StepAccesses(call, i, j, k, n)
       IN  IF ~AllInBounds(as) THEN Undefined(as)
           ELSE /\ sum' = accumulate(sum, mem[BufOf(as[1])][IdxOf(as[1])],
                                     mem[BufOf(as[2])][IdxOf(as[2])])
                /\ Advance(as)
                /\ UNCHANGED << argVars, n, size, mem, gen, mi, pc, call, wcount,
                                snap, log, ioVars, probe >>

\* The end of the k loop: res[index(i, j)] = sum, then the next cell with sum = 0.0.
KernelStore(fn) ==
    /\ pc = "call" /\ FnOf(call) = fn /\ i < n /\ k >= n
    /\ LET as == StepAccesses(call, i, j, k, n)
       IN  IF ~AllInBounds(as) THEN Undefined(as)
           ELSE /\ Store(BufOf(as[1]), IdxOf(as[1]), sum)
                /\ Advance(as)
                /\ sum' = 0
                /\ UNCHANGED << argVars, n, size, gen, mi, pc, call, snap, log,
                                ioVars, probe >>

MultiplyNaiveInner == KernelInner("multiplyNaive")

MultiplyNaiveStore == KernelStore("multiplyNaive")

MultiplyWithTransposeInner == KernelInner("multiplyWithTranspose")

MultiplyWithTransposeStore == KernelStore("multiplyWithTranspose")

\* The outer loop has ended: the function returns to its caller.
FunctionReturn ==
    /\ pc = "call" /\ i >= n
    /\ pc' = RetOf(call)
    /\ log' = Append(log, FnOf(call) \o ":ret")
    /\ acc' = << >>
    /\ UNCHANGED << argVars, n, size, mem, gen, mi, frameVars, wcount, snap,
                    ioVars, probe >>

KernelNext ==
    \/ BuildTransposeStep
    \/ MultiplyNaiveInner
    \/ MultiplyNaiveStore
    \/ MultiplyWithTransposeInner
    \/ MultiplyWithTransposeStore
    \/ FunctionReturn

\* ------------------------------------------------------------------ main
\* for (i < argc) transposeMode |= s.find("transpose") != npos
ParseArg ==
    /\ pc = "args" /\ ai < Len(argv)
    /\ transposeMode' = (transposeMode \/ StrFind(argv[ai + 1], "transpose") # Npos)
    /\ ai' = ai + 1
    /\ acc' = << >>
    /\ UNCHANGED << argv, n, size, mem, gen, mi, pc, frameVars, wcount, snap, log,
                    ioVars, probe >>

ParseDone ==
    /\ pc = "args" /\ ai >= Len(argv)
    /\ pc' = "alloc" /\ mi' = 0
    /\ acc' = << >>
    /\ UNCHANGED << argVars, n, size, mem, gen, frameVars, wcount, snap, log,
                    ioVars, probe >>

\* std::vector<double> v(n * n): n * n zeros.
Allocate ==
    /\ pc = "alloc"
    /\ LET b == AllocOrder[mi + 1]
       IN  IF ~IntFitsMul(n, n)
           THEN /\ pc' = "ub"
                /\ UNCHANGED << size, mem, wcount, mi, log >>
           ELSE /\ size' = [size EXCEPT ![b] = n * n]
                /\ mem' = [mem EXCEPT ![b] = ZeroVec(n * n)]
                /\ wcount' = [wcount EXCEPT ![b] = ZeroVec(n * n)]
                /\ log' = Append(log, "alloc")
                /\ IF mi + 1 < Len(AllocOrder)
                   THEN pc' = "alloc" /\ mi' = mi + 1
                   ELSE pc' = "gen1" /\ mi' = 0
    /\ acc' = << >>
    /\ UNCHANGED << argVars, n, gen, frameVars, snap, ioVars, probe >>

\* The allocation throws std::bad_alloc; nothing catches it: std::terminate.
AllocateFail ==
    /\ pc = "alloc"
    /\ failed' = AllocOrder[mi + 1]
    /\ pc' = "terminated"
    /\ acc' = << >>
    /\ UNCHANGED << argVars, n, size, mem, gen, mi, frameVars, wcount, snap, log,
                    out, startT, endT, checksum, probe >>

\* for (i < n * n) v[i] = dist(gen)
GenerateLoop(at, b, next) ==
    /\ pc = at
    /\ LET as == << LoopAccess("w", b, mi, n) >>
       IN  IF ~IntFitsMul(n, n) THEN Undefined(as)
           ELSE IF mi < n * n
           THEN IF ~AllInBounds(as) THEN Undefined(as)
                ELSE /\ gen' = GenNext(gen)
                     /\ Store(b, mi, Dist(GenNext(gen)))
                     /\ mi' = mi + 1
                     /\ acc' = as
                     /\ log' = IF mi = 0 THEN Append(log, "generate:" \o b) ELSE log
                     /\ UNCHANGED << argVars, n, size, pc, frameVars, snap, ioVars,
                                     probe >>
           ELSE /\ pc' = next /\ mi' = 0
                /\ snap' = [snap EXCEPT ![b] = mem[b]]
                /\ acc' = << >>
                /\ UNCHANGED << argVars, n, size, mem, gen, frameVars, wcount, log,
                                ioVars, probe >>

Generate1 == GenerateLoop("gen1", "mul1", "gen2")

Generate2 == GenerateLoop("gen2", "mul2", "sleep1")

\* sleep(1)
Sleep(at, next) ==
    /\ pc = at
    /\ pc' = next
    /\ log' = Append(log, "sleep")
    /\ acc' = << >>
    /\ UNCHANGED << argVars, n, size, mem, gen, mi, frameVars, wcount, snap, ioVars,
                    probe >>

Sleep1 == Sleep("sleep1", "flush")

Sleep2 == Sleep("sleep2", "branch")

\* flushCache(): the scratch buffer is allocated, read through, and released.
flushCache ==
    /\ pc = "flush"
    /\ pc' = "sleep2"
    /\ log' = log \o << "flushCache:call", "flushCache:ret" >>
    /\ acc' = << >>
    /\ UNCHANGED << argVars, n, size, mem, gen, mi, frameVars, wcount, snap, ioVars,
                    probe >>

\* Variant: the failure of the scratch allocation is swallowed and the run goes on.
flushCacheFailIgnored ==
    /\ pc = "flush"
    /\ failed' = "flushBuffer"
    /\ pc' = "sleep2"
    /\ log' = log \o << "flushCache:call", "flushCache:ret" >>
    /\ acc' = << >>
    /\ UNCHANGED << argVars, n, size, mem, gen, mi, frameVars, wcount, snap,
                    out, startT, endT, checksum, probe >>

\* std::vector<char> buffer(flushSize) throws std::bad_alloc.
flushCacheFail ==
    /\ pc = "flush"
    /\ failed' = "flushBuffer"
    /\ pc' = "terminated"
    /\ log' = Append(log, "flushCache:call")
    /\ acc' = << >>
    /\ UNCHANGED << argVars, n, size, mem, gen, mi, frameVars, wcount, snap,
                    out, startT, endT, checksum, probe >>

\* Variant: the branches taken the other way round.
BranchInverted ==
    /\ pc = "branch"
    /\ pc' = IF transposeMode THEN "startA" ELSE "startB"
    /\ acc' = << >>
    /\ UNCHANGED << argVars, n, size, mem, gen, mi, frameVars, wcount, snap, log,
                    ioVars, probe >>

\* if (not transposeMode) ... else ...
Branch ==
    /\ pc = "branch"
    /\ pc' = IF ~transposeMode THEN "startA" ELSE "startB"
    /\ acc' = << >>
    /\ UNCHANGED << argVars, n, size, mem, gen, mi, frameVars, wcount, snap, log,
                    ioVars, probe >>

\* auto start = steady_clock::now()
ClockStart(br) ==
    /\ pc = "start" \o br
    /\ \E t \in 0..MaxTick : startT' = t
    /\ pc' = "run" \o br
    /\ log' = Append(log, "clock:start")
    /\ acc' = << >>
    /\ UNCHANGED << argVars, n, size, mem, gen, mi, frameVars, wcount, snap, out,
                    endT, checksum, failed, probe >>

\* multiplyNaive(mul1, mul2, resA, n)
CallMultiplyNaive ==
    /\ pc = "runA"
    /\ Enter(MkCall("multiplyNaive", "mul1", "mul2", "resA", "endA"))
    /\ acc' = << >>
    /\ UNCHANGED << argVars, n, size, mem, gen, mi, wcount, snap, ioVars, probe >>

\* buildTranspose(mul2, mul2T, n)
CallBuildTranspose ==
    /\ pc = "runB"
    /\ Enter(MkCall("buildTranspose", "mul2", "mul2", "mul2T", "run2B"))
    /\ acc' = << >>
    /\ UNCHANGED << argVars, n, size, mem, gen, mi, wcount, snap, ioVars, probe >>

\* multiplyWithTranspose(mul1, mul2T, resB, n)
CallMultiplyWithTranspose ==
    /\ pc = "run2B"
    /\ Enter(MkCall("multiplyWithTranspose", "mul1", "mul2T", "resB", "endB"))
    /\ acc' = << >>
    /\ UNCHANGED << argVars, n, size, mem, gen, mi, wcount, snap, ioVars, probe >>

\* Variant: the end reading is not taken before the checksum loop starts.
ClockEndLate(br) ==
    /\ pc = "end" \o br
    /\ pc' = "checksum" \o br
    /\ checksum' = 0 /\ mi' = 0
    /\ acc' = << >>
    /\ UNCHANGED << argVars, n, size, mem, gen, frameVars, wcount, snap, log, out,
                    startT, endT, failed, probe >>

\* auto end = steady_clock::now(): the clock is monotonic.
ClockEnd(br) ==
    /\ pc = "end" \o br
    /\ \E t \in startT..MaxTick : endT' = t
    /\ pc' = "checksum" \o br
    /\ checksum' = 0 /\ mi' = 0
    /\ log' = Append(log, "clock:end")
    /\ acc' = << >>
    /\ UNCHANGED << argVars, n, size, mem, gen, frameVars, wcount, snap, out,
                    startT, failed, probe >>

ResultOf(br) == IF br = "A" THEN "resA" ELSE "resB"

\* for (i < n * n) checksum += res[i]
ChecksumLoop(br) ==
    /\ pc = "checksum" \o br
    /\ LET as == << LoopAccess("r", ResultOf(br), mi, n) >>
       IN  IF ~IntFitsMul(n, n) THEN Undefined(as)
           ELSE IF mi < n * n
           THEN IF ~AllInBounds(as) THEN Undefined(as)
                ELSE /\ checksum' = fadd(checksum, mem[ResultOf(br)][mi])
                     /\ mi' = mi + 1
                     /\ acc' = as
                     /\ log' = IF mi = 0 THEN Append(log, "checksum") ELSE log
                     /\ UNCHANGED << argVars, n, size, mem, gen, pc, frameVars,
                                     wcount, snap, out, startT, endT, failed, probe >>
           ELSE /\ pc' = "print" \o br
                /\ acc' = << >>
                /\ UNCHANGED << argVars, n, size, mem, gen, mi, frameVars, wcount,
                                snap, log, ioVars, probe >>

LabelOf(br) == IF br = "A" THEN "naive ms: " ELSE "transposed ms: "

\* std::cout << "<mode> ms: " << duration << "\n"
PrintMs(br) ==
    /\ pc = "print" \o br
    /\ out' = Append(out, LabelOf(br) \o DecString(endT - startT))
    /\ pc' = "print2" \o br
    /\ log' = Append(log, "print:ms")
    /\ acc' = << >>
    /\ UNCHANGED << argVars, n, size, mem, gen, mi, frameVars, wcount, snap,
                    startT, endT, checksum, failed, probe >>

\* std::cout << "checksum: " << std::hex << bits << "\n"
PrintChecksum(br) ==
    /\ pc = "print2" \o br
    /\ out' = Append(out, "checksum: " \o HexString(DoubleBits(checksum)))
    /\ pc' = "return"
    /\ log' = Append(log, "print:checksum")
    /\ acc' = << >>
    /\ UNCHANGED << argVars, n, size, mem, gen, mi, frameVars, wcount, snap,
                    startT, endT, checksum, failed, probe >>

\* return 0
Return ==
    /\ pc = "return"
    /\ pc' = "done"
    /\ acc' = << >>
    /\ UNCHANGED << argVars, n, size, mem, gen, mi, frameVars, wcount, snap, log,
                    ioVars, probe >>

Init ==
    /\ argv \in ArgvSet
    /\ ai = 0
    /\ transposeMode = FALSE
    /\ n \in 1..MaxN
    /\ size = [b \in Bufs |-> -1]
    /\ mem = [b \in Bufs |-> ZeroVec(0)]
    /\ wcount = [b \in Bufs |-> ZeroVec(0)]
    /\ snap = [b \in Bufs |-> ZeroVec(0)]
    /\ gen \in 0..MaxSeed
    /\ mi = 0
    /\ pc = "args"
    /\ call = NoCall
    /\ i = 0 /\ j = 0 /\ k = 0 /\ sum = 0
    /\ acc = << >>
    /\ log = << >>
    /\ out = << >>
    /\ startT = 0 /\ endT = 0
    /\ checksum = 0
    /\ failed = "none"
    /\ probe = 0

MainNext ==
    \/ ParseArg
    \/ ParseDone
    \/ Allocate
    \/ AllocateFail
    \/ Generate1
    \/ Generate2
    \/ Sleep1
    \/ flushCache
    \/ flushCacheFail
    \/ Sleep2
    \/ Branch
    \/ \E br \in {"A", "B"} : ClockStart(br)
    \/ CallMultiplyNaive
    \/ CallBuildTranspose
    \/ CallMultiplyWithTranspose
    \/ \E br \in {"A", "B"} : ClockEnd(br)
    \/ \E br \in {"A", "B"} : ChecksumLoop(br)
    \/ \E br \in {"A", "B"} : PrintMs(br)
    \/ \E br \in {"A", "B"} : PrintChecksum(br)
    \/ Return

Next == MainNext \/ KernelNext

Spec == Init /\ [][Next]_vars

\* ------------------------------------------------- the functions alone
\* What the generator loop leaves in a vector of len elements, from engine state g.
Matrix(g, len) == [x \in 0..(len - 1) |-> Dist(GenAdvance(g, x + 1))]

\* Two generated n x n inputs; every other vector n * n zeros, as constructed.
InitKernels ==
    /\ argv = << >> /\ ai = 0 /\ transposeMode = FALSE
    /\ n \in 1..MaxN
    /\ size = [b \in Bufs |-> n * n]
    /\ \E ga \in 0..MaxSeed, gb \in 0..MaxSeed :
          /\ mem = [b \in Bufs |->
                      CASE b = "mul1" -> Matrix(ga, n * n)
                        [] b = "mul2" -> Matrix(gb, n * n)
                        [] OTHER -> ZeroVec(n * n)]
          /\ snap = [b \in Bufs |->
                      CASE b = "mul1" -> Matrix(ga, n * n)
                        [] b = "mul2" -> Matrix(gb, n * n)
                        [] OTHER -> ZeroVec(0)]
    /\ wcount = [b \in Bufs |-> ZeroVec(n * n)]
    /\ gen = 0 /\ mi = 0
    /\ pc = "test0"
    /\ call = NoCall
    /\ i = 0 /\ j = 0 /\ k = 0 /\ sum = 0
    /\ acc = << >> /\ log = << >> /\ out = << >>
    /\ startT = 0 /\ endT = 0 /\ checksum = 0
    /\ failed = "none" /\ probe = 0

TestCall(at, c) ==
    /\ pc = at
    /\ Enter(c)
    /\ acc' = << >>
    /\ UNCHANGED << argVars, n, size, mem, gen, mi, wcount, snap, ioVars, probe >>

\* buildTranspose(mul2, mul2T, n)
TestBuildTranspose ==
    TestCall("test0", MkCall("buildTranspose", "mul2", "mul2", "mul2T", "test1"))

\* multiplyNaive(mul1, mul2, resA, n)
TestMultiplyNaive ==
    TestCall("test1", MkCall("multiplyNaive", "mul1", "mul2", "resA", "test2"))

\* multiplyWithTranspose(mul1, mul2T, resB, n)
TestMultiplyWithTranspose ==
    TestCall("test2", MkCall("multiplyWithTranspose", "mul1", "mul2T", "resB", "test3"))

\* buildTranspose(mul2T, mulTT, n)
TestTransposeBack ==
    TestCall("test3", MkCall("buildTranspose", "mul2T", "mul2T", "mulTT", "test4"))

KernelsNext ==
    \/ TestBuildTranspose
    \/ TestMultiplyNaive
    \/ TestMultiplyWithTranspose
    \/ TestTransposeBack
    \/ KernelNext

SpecKernels == InitKernels /\ [][KernelsNext]_vars

\* ------------------------------------- the loop nests at n = 2000
\* A loop of main over n * n, as a frame: one access v[i] per iteration.
MkLoop(op, b) ==
    << "main", "none", "none", b, op, "probed" >>

\* Every loop nest of a run, with the arguments main passes.
ProbeCalls ==
    { MkCall("buildTranspose", "mul2", "mul2", "mul2T", "probed"),
      MkCall("multiplyNaive", "mul1", "mul2", "resA", "probed"),
      MkCall("multiplyWithTranspose", "mul1", "mul2T", "resB", "probed"),
      MkLoop("w", "mul1"), MkLoop("w", "mul2"),
      MkLoop("r", "resA"), MkLoop("r", "resB") }

\* The values of a loop variable within ProbeSpan of either end of 0..(bound - 1).
Ends(bound) ==
    {x \in 0..(ProbeSpan - 1) : x < bound}
        \cup {x \in (bound - ProbeSpan)..(bound - 1) : x >= 0}

\* The bound of the outermost loop: n in the functions, n * n in main.
OuterBound(c, dim) == IF FnOf(c) = "main" THEN dim * dim ELSE dim

\* The positions a loop nest passes through, near the ends of each loop.
ProbePositions(c, dim) ==
    CASE FnOf(c) = "main" -> {<<x, 0, 0>> : x \in Ends(dim * dim)}
      [] FnOf(c) = "buildTranspose" -> {<<x, y, 0>> : x \in Ends(dim), y \in Ends(dim)}
      [] OTHER -> {<<x, y, z>> : x \in Ends(dim), y \in Ends(dim),
                                 z \in Ends(dim) \cup {dim}}

InitIndex ==
    /\ argv = << >> /\ ai = 0 /\ transposeMode = FALSE
    /\ n = NCode
    /\ IntFitsMul(n, n)
    /\ size = [b \in Bufs |-> IF b = "mulTT" THEN -1 ELSE n * n]
    /\ mem = [b \in Bufs |-> ZeroVec(0)]
    /\ wcount = [b \in Bufs |-> ZeroVec(0)]
    /\ snap = [b \in Bufs |-> ZeroVec(0)]
    /\ gen = 0 /\ mi = 0
    /\ pc = "probe"
    /\ call \in ProbeCalls
    /\ \E pos \in ProbePositions(call, n) : i = pos[1] /\ j = pos[2] /\ k = pos[3]
    /\ sum = 0
    /\ acc = << >> /\ log = << >> /\ out = << >>
    /\ startT = 0 /\ endT = 0 /\ checksum = 0
    /\ failed = "none"
    /\ probe = MaxProbe

\* One step of the loop nest: its index computations and its loop control.
IndexStep ==
    /\ pc = "probe" /\ probe > 0 /\ i < OuterBound(call, n)
    /\ LET as == StepAccesses(call, i, j, k, n)
       IN  IF ~AllInBounds(as) THEN Undefined(as)
           ELSE /\ Advance(as)
                /\ probe' = probe - 1
                /\ UNCHANGED << argVars, n, size, mem, gen, mi, pc, call, sum,
                                wcount, snap, log, ioVars >>

\* The outermost loop has ended.
IndexReturn ==
    /\ pc = "probe" /\ i >= OuterBound(call, n)
    /\ pc' = RetOf(call)
    /\ acc' = << >>
    /\ UNCHANGED << argVars, n, size, mem, gen, mi, frameVars, wcount, snap, log,
                    ioVars, probe >>

IndexNext == IndexStep \/ IndexReturn

SpecIndex == InitIndex /\ [][IndexNext]_vars

\* ------------------------------------------------------------- claims
RECURSIVE SumCells(_, _)
\* checksum = 0.0; for (i < len) checksum += v[i]
SumCells(v, len) == IF len = 0 THEN 0 ELSE fadd(SumCells(v, len - 1), v[len - 1])

RECURSIVE DotUp(_, _, _, _, _, _)
\* The first m terms of row r of x times column c of y, added in increasing k.
DotUp(x, y, r, c, dim, m) ==
    IF m = 0 THEN 0
    ELSE fadd(DotUp(x, y, r, c, dim, m - 1),
              fmul(x[r * dim + (m - 1)], y[(m - 1) * dim + c]))

RECURSIVE DotUpT(_, _, _, _, _, _)
\* The same with the second operand given transposed: t[c * dim + k].
DotUpT(x, t, r, c, dim, m) ==
    IF m = 0 THEN 0
    ELSE fadd(DotUpT(x, t, r, c, dim, m - 1),
              fmul(x[r * dim + (m - 1)], t[c * dim + (m - 1)]))

RECURSIVE DotDown(_, _, _, _, _, _)
\* The last m terms of row r of x times column c of y, added in decreasing k.
DotDown(x, y, r, c, dim, m) ==
    IF m = 0 THEN 0
    ELSE fadd(DotDown(x, y, r, c, dim, m - 1),
              fmul(x[r * dim + (dim - m)], y[(dim - m) * dim + c]))

Cells == 0..(n - 1)

Returned(at) == pc \in at

\* C1: for every n >= 1 and every pair of n x n inputs, once multiplyNaive(A, B, R1)
\* and multiplyWithTranspose(A, T, R2) with T built by buildTranspose(B, T) have
\* both returned, R1 and R2 are equal cell for cell, and so are their checksums.
C1_KernelsAgree ==
    Returned({"test3", "test4"}) =>
        /\ \A x \in 0..(n * n - 1) : mem["resA"][x] = mem["resB"][x]
        /\ SumCells(mem["resA"], n * n) = SumCells(mem["resB"], n * n)

\* Both kernels have run on a second operand that is not symmetric, with a
\* result that is not all zeros.
C1_Witness ==
    /\ pc = "test3" /\ n >= 2
    /\ mem["mul2T"] # mem["mul2"]
    /\ \E x \in 0..(n * n - 1) : mem["resA"][x] # 0
    /\ SumCells(mem["resB"], n * n) # 0

\* C2: for every n >= 1 (n = 1 included), after multiplyNaive returns every cell
\* R[i*n + j] is the sum, taken in increasing k, of A[i*n + k] * B[k*n + j]; after
\* multiplyWithTranspose returns every cell R[i*n + j] is the sum, in increasing k,
\* of A[i*n + k] * T[j*n + k].
C2_KernelSums ==
    /\ Returned({"test2", "test3", "test4"}) =>
          \A r \in Cells, c \in Cells :
              mem["resA"][r * n + c] = DotUp(mem["mul1"], mem["mul2"], r, c, n, n)
    /\ Returned({"test3", "test4"}) =>
          \A r \in Cells, c \in Cells :
              mem["resB"][r * n + c] = DotUpT(mem["mul1"], mem["mul2T"], r, c, n, n)

\* Both kernels have returned on inputs where the order of accumulation shows:
\* some cell differs from the same terms added in decreasing k.
C2_Witness ==
    /\ pc = "test3"
    /\ \E r \in Cells, c \in Cells :
          /\ mem["resA"][r * n + c] # DotDown(mem["mul1"], mem["mul2"], r, c, n, n)
          /\ mem["resB"][r * n + c] # DotDown(mem["mul1"], mem["mul2"], r, c, n, n)

\* The boundary n = 1: both kernels have returned a non-zero scalar product.
C2_WitnessScalar ==
    /\ pc = "test3" /\ n = 1
    /\ mem["resA"][0] # 0 /\ mem["resB"][0] # 0

\* C3: for every n >= 1 and every n x n matrix M, after buildTranspose(M, T, n)
\* returns (T a distinct vector), T[i*n + j] = M[j*n + i] for all i, j in [0, n),
\* and M is as it was; M is not changed while the function runs either.
C3_Transpose ==
    /\ mem["mul2"] = snap["mul2"]
    /\ Returned({"test1", "test2", "test3", "test4"}) =>
          \A r \in Cells, c \in Cells : mem["mul2T"][r * n + c] = mem["mul2"][c * n + r]

\* buildTranspose has just returned on a matrix that is not symmetric.
C3_Witness ==
    /\ pc = "test1" /\ n >= 2
    /\ \E r \in Cells, c \in Cells : mem["mul2"][r * n + c] # mem["mul2"][c * n + r]

\* C4: transposing twice is the identity: after buildTranspose(M, T, n) and then
\* buildTranspose(T, U, n), U equals M in every element.
C4_Involution ==
    Returned({"test4"}) =>
        \A x \in 0..(n * n - 1) : mem["mulTT"][x] = snap["mul2"][x]

\* The second transposition has returned; M is not symmetric, so T differs from M.
C4_Witness ==
    /\ pc = "test4" /\ n >= 2
    /\ mem["mul2T"] # snap["mul2"]
    /\ mem["mulTT"] # ZeroVec(n * n)

Has(seq, e) == \E p \in DOMAIN seq : seq[p] = e

Count(seq, e) == Cardinality({p \in DOMAIN seq : seq[p] = e})

First(seq, e) == CHOOSE p \in DOMAIN seq : seq[p] = e /\ \A q \in 1..(p - 1) : seq[q] # e

IsPrefix(s1, s2) == Len(s1) <= Len(s2) /\ SubSeq(s2, 1, Len(s1)) = s1

StartsWith(str, head) == Len(str) >= Len(head) /\ SubSeq(str, 1, Len(head)) = head

\* The phase of a position of main.
PhaseOf(p, c) ==
    CASE p \in {"args", "alloc", "gen1", "gen2"} -> "Init"
      [] p \in {"sleep1", "flush", "sleep2", "branch"} -> "Flush"
      [] p \in {"startB", "runB"} -> "Transpose"
      [] p = "call" -> IF FnOf(c) = "buildTranspose" THEN "Transpose" ELSE "Multiply"
      [] p \in {"startA", "runA", "run2B", "endA", "endB"} -> "Multiply"
      [] p \in {"checksumA", "checksumB"} -> "Checksum"
      [] p \in {"printA", "printB", "print2A", "print2B", "return"} -> "Report"
      [] p = "done" -> "Done"
      [] OTHER -> "Aborted"

\* The phase that follows a phase, given the mode.
PhaseAfter(ph, mode) ==
    CASE ph = "Init" -> "Flush"
      [] ph = "Flush" -> IF mode THEN "Transpose" ELSE "Multiply"
      [] ph = "Transpose" -> "Multiply"
      [] ph = "Multiply" -> "Checksum"
      [] ph = "Checksum" -> "Report"
      [] ph = "Report" -> "Done"
      [] OTHER -> ph

Calls(fn) == Count(log, fn \o ":call")

\* What holds of the kernels executed so far, and of a completed run.
KernelChoice ==
    /\ Calls("multiplyNaive") + Calls("multiplyWithTranspose") <= 1
    /\ Calls("buildTranspose") <= 1
    /\ Calls("multiplyNaive") = 1 => ~transposeMode
    /\ Calls("multiplyWithTranspose") = 1 => transposeMode
    /\ Calls("buildTranspose") = 1 => transposeMode
    /\ pc = "done" =>
          /\ Calls("multiplyNaive") + Calls("multiplyWithTranspose") = 1
          /\ Calls("multiplyNaive") = 1 <=> ~transposeMode
          /\ Calls("buildTranspose") = 1 <=> transposeMode

\* C5: in every run of main the phases follow Init -> Flush -> (Transpose, in
\* transposed mode only) -> Multiply -> Checksum -> Report -> Done, one after the
\* other and none revisited (a run ended by a failed allocation stops on the way);
\* the mode is decided before anything is allocated or generated and does not
\* change afterwards; at most one kernel is executed, a completed run has executed
\* exactly one, multiplyNaive iff the mode is naive, and buildTranspose iff the
\* mode is transposed.
C5_PhaseOrder ==
    [][ /\ PhaseOf(pc', call') \in
              { PhaseOf(pc, call), PhaseAfter(PhaseOf(pc, call), transposeMode),
                "Aborted" }
        /\ PhaseOf(pc, call) = "Aborted" => PhaseOf(pc', call') = "Aborted"
        /\ pc # "args" => transposeMode' = transposeMode
        /\ log' # << >> => pc' # "args"
        /\ KernelChoice' ]_vars

\* A run in transposed mode has completed.
C5_Witness == pc = "done" /\ transposeMode /\ Len(out) = 2

\* What main does before the start reading, between the two readings, and after
\* the end reading.
BeforeTimed ==
    [x \in 1..Len(AllocOrder) |-> "alloc"]
        \o << "generate:mul1", "generate:mul2", "sleep", "flushCache:call",
              "flushCache:ret", "sleep" >>

Timed(mode) ==
    IF mode
    THEN << "buildTranspose:call", "buildTranspose:ret",
            "multiplyWithTranspose:call", "multiplyWithTranspose:ret" >>
    ELSE << "multiplyNaive:call", "multiplyNaive:ret" >>

AfterTimed == << "checksum", "print:ms", "print:checksum" >>

\* C6: in every run the interval between the two readings of the steady clock
\* holds exactly multiplyNaive in naive mode and exactly buildTranspose followed
\* by multiplyWithTranspose in transposed mode; generation and sleep, flushCache,
\* sleep are complete before the start reading; the checksum loop and the prints
\* come after the end reading.
C6_TimedInterval ==
    /\ Count(log, "clock:start") <= 1 /\ Count(log, "clock:end") <= 1
    /\ ~Has(log, "clock:start") => IsPrefix(log, BeforeTimed)
    /\ Has(log, "clock:start") =>
          LET s == First(log, "clock:start")
          IN  /\ SubSeq(log, 1, s - 1) = BeforeTimed
              /\ IF Has(log, "clock:end")
                 THEN LET e == First(log, "clock:end")
                      IN  /\ SubSeq(log, s + 1, e - 1) = Timed(transposeMode)
                          /\ IsPrefix(SubSeq(log, e + 1, Len(log)), AfterTimed)
                 ELSE IsPrefix(SubSeq(log, s + 1, Len(log)), Timed(transposeMode))
    /\ PhaseOf(pc, call) \in {"Init", "Flush"} => ~Has(log, "clock:start")
    /\ pc = "call" => Has(log, "clock:start") /\ ~Has(log, "clock:end")
    /\ PhaseOf(pc, call) \in {"Checksum", "Report", "Done"} =>
          Has(log, "clock:end") /\ startT <= endT

\* A run in transposed mode has completed, with a non-zero interval measured.
C6_Witness == pc = "done" /\ transposeMode /\ startT < endT

\* C7: with no selector argument (argc <= 1, whatever argv[0] is) the run is in
\* naive mode, executes multiplyNaive and prints the label "naive ms: "; a run is
\* in transposed mode only when an argument after argv[0] selects it.
C7_DefaultNaive ==
    /\ (Len(argv) <= 1 /\ pc # "args") => ~transposeMode
    /\ Len(argv) <= 1 =>
          /\ ~Has(log, "multiplyWithTranspose:call")
          /\ out # << >> => StartsWith(out[1], "naive ms: ")
    /\ (pc # "args" /\ transposeMode) =>
          \E x \in 2..Len(argv) : StrFind(argv[x], "transpose") # Npos

AllAllocated == \A x \in DOMAIN AllocOrder : size[AllocOrder[x]] = n * n

\* C8: if an allocation fails (one of main's five vectors or flushCache's scratch
\* buffer) the run terminates with nothing written to standard output and never
\* reaches the report; every allocation precedes the first write to standard
\* output; and a run that writes the "ms:" line also writes the "checksum:" line.
C8_AllocFailure ==
    /\ failed # "none" => pc = "terminated" /\ out = << >>
    /\ pc = "terminated" => failed # "none" /\ out = << >> /\ ~Has(log, "print:ms")
    /\ out # << >> =>
          /\ AllAllocated /\ Has(log, "flushCache:ret")
          /\ ~ENABLED AllocateFail /\ ~ENABLED flushCacheFail
    /\ Len(out) = 1 => pc \in {"print2A", "print2B"}
    /\ pc \in {"return", "done"} =>
          /\ Len(out) = 2
          /\ StartsWith(out[1], "naive ms: ") \/ StartsWith(out[1], "transposed ms: ")
          /\ StartsWith(out[2], "checksum: ")

\* The scratch buffer of flushCache could not be allocated, after all five
\* vectors of main were.
C8_Witness == failed = "flushBuffer" /\ pc = "terminated" /\ AllAllocated

AllStoredOnce(b) == \A x \in 0..(n * n - 1) : wcount[b][x] = 1

\* C9: during a kernel call each cell of the result is stored to exactly once, in
\* the order of the loops, the k loop stores nothing and the kernel reads no
\* result cell; main's checksum loop reads the result only after the kernel has
\* returned with every cell written; the inputs, once generated, and the
\* transposed matrix, once built, are not written again.
C9_WriteOnce ==
    /\ \A b \in Bufs : \A x \in DOMAIN wcount[b] : wcount[b][x] <= 1
    /\ (pc = "call" /\ FnOf(call) \in Kernels) =>
          /\ \A x \in 0..(n * n - 1) :
                wcount[Dst(call)][x] = IF x < i * n + j THEN 1 ELSE 0
          /\ \A p \in DOMAIN acc : BufOf(acc[p]) = Dst(call) => OpOf(acc[p]) = "w"
          /\ k > 0 => \A p \in DOMAIN acc : OpOf(acc[p]) = "r"
    /\ \A p \in DOMAIN acc :
          (OpOf(acc[p]) = "r" /\ BufOf(acc[p]) \in {"resA", "resB"}) =>
              /\ pc # "call"
              /\ Has(log, "multiplyNaive:ret") \/ Has(log, "multiplyWithTranspose:ret")
              /\ AllStoredOnce(BufOf(acc[p]))
    /\ \A fn \in Kernels :
          Has(log, fn \o ":ret") =>
              AllStoredOnce(IF fn = "multiplyNaive" THEN "resA" ELSE "resB")
    /\ Has(log, "sleep") =>
          /\ mem["mul1"] = snap["mul1"] /\ AllStoredOnce("mul1")
          /\ mem["mul2"] = snap["mul2"] /\ AllStoredOnce("mul2")
    /\ Has(log, "buildTranspose:ret") =>
          /\ AllStoredOnce("mul2T")
          /\ \A r \in Cells, c \in Cells :
                mem["mul2T"][r * n + c] = snap["mul2"][c * n + r]

\* The checksum loop has read every cell of the result of multiplyWithTranspose.
C9_Witness == pc = "checksumB" /\ mi = n * n /\ n >= 2 /\ checksum # 0

\* C10: at n = 2000 every index row * n + col computed by buildTranspose,
\* multiplyNaive and multiplyWithTranspose, and every loop index i < n * n of
\* main, lies in [0, n * n), within its vector; neither row * n + col nor n * n
\* overflows int; and every vector keeps its n * n elements.
C10_IndexBounds ==
    /\ pc # "ub"
    /\ n = NCode /\ IntFitsMul(n, n)
    /\ \A x \in DOMAIN AllocOrder : size[AllocOrder[x]] = NCode * NCode
    /\ \A p \in DOMAIN acc :
          /\ FitsOf(acc[p])
          /\ IdxOf(acc[p]) >= 0 /\ IdxOf(acc[p]) < NCode * NCode
          /\ IdxOf(acc[p]) < size[BufOf(acc[p])]
    /\ (pc = "probe" /\ i < OuterBound(call, n)) =>
          AllInBounds(StepAccesses(call, i, j, k, n))

\* multiplyNaive has stored the last cell of the result, res[n * n - 1], and its
\* outer loop has ended.
C10_Witness ==
    /\ FnOf(call) = "multiplyNaive" /\ i = n
    /\ acc = << << "w", "resA", NCode * NCode - 1, TRUE >> >>

====
